---- MODULE Spec2Model ----
(***************************************************************************)
(* Task / User REST service (src/routes/tasks.js, src/routes/users.js).    *)
(* The two collections are the state; every route handler is one action    *)
(* (requests run one at a time: a handler, with all the storage writes it  *)
(* issues, finishes before the next request starts).                       *)
(*   Spec      the six writing routes                                      *)
(*   ReadSpec  creates and deletes, with the four reading routes           *)
(*   RaceSpec  two User creates/updates, one storage operation per step    *)
(*   FailSpec  creates, then one request that meets a failing storage call *)
(***************************************************************************)
EXTENDS Naturals, Integers, Sequences, FiniteSets, TLC

VARIABLES
    tasks,      \* Task collection: task id -> document
    users,      \* User collection: user id -> document
    nextTask,   \* number of Task documents created so far (ids are never reused)
    nextUser,   \* number of User documents created so far
    lastReq,    \* the route of the request handled last
    resp,       \* the response to lastReq: HTTP status and message
    inflight,   \* requests between two storage operations: process -> request
    failure     \* the storage call that failed while lastReq was handled

vars == <<tasks, users, nextTask, nextUser, lastReq, resp, inflight, failure>>

\* ---------------------------------------------------------------- bounds
MaxTasks == 1       \* Task documents ever created
MaxUsers == 2       \* User documents ever created

\* ---------------------------------------------------------------- values
Names     == {"Al", "Bo"}              \* user names a client sends
Emails    == {"a@x.com", "b@x.com"}    \* emails a client sends
TaskNames == {"T1"}                    \* task names a client sends
Deadline  == "1700000000000"           \* an epoch-millisecond deadline
BadId     == "zzz"                     \* an id ObjectId.isValid rejects
GhostTask == "t0"                      \* well-formed id of no Task, ever
GhostUser == "u0"                      \* well-formed id of no User, ever

TaskId(n) == "t" \o ToString(n)        \* the n-th generated Task _id
UserId(n) == "u" \o ToString(n)        \* the n-th generated User _id

IssuedTaskIds == {TaskId(n) : n \in 1..nextTask}
IssuedUserIds == {UserId(n) : n \in 1..nextUser}

\* ids a client can put in a request: ids the service has handed out, a
\* well-formed id that names nothing, and a malformed id
TaskIdInputs == IssuedTaskIds \cup {GhostTask, BadId}
UserIdInputs == IssuedUserIds \cup {GhostUser, BadId}

Range(s) == {s[i] : i \in 1..Len(s)}

\* the elements of the set S as a sequence, in one fixed order
RECURSIVE SeqOf(_)
SeqOf(S) ==
    IF S = {} THEN <<>>
    ELSE LET x == CHOOSE y \in S : TRUE IN <<x>> \o SeqOf(S \ {x})

\* pendingTasks arrays a client sends: every set of ids as one array (the
\* handlers test membership only, so the order of a body's array is not
\* varied), and arrays that repeat an id
PendingInputs ==
    {SeqOf(S) : S \in SUBSET TaskIdInputs} \cup {<<x, x>> : x \in TaskIdInputs}

\* (mutant) no id is rejected as malformed
isValidAlways(id) == TRUE

\* mongoose.Types.ObjectId.isValid(id)
isValid(id) == id # BadId

\* s.filter(x => S does not hold x), order and repetitions kept
RECURSIVE Without(_, _)
Without(s, S) ==
    IF s = <<>> THEN <<>>
    ELSE IF Head(s) \notin S THEN <<Head(s)>> \o Without(Tail(s), S)
         ELSE Without(Tail(s), S)

\* ------------------------------------------------------ storage operations
\* (mutant) the push is followed by a $set of the User's name
addTaskToUserRenaming(us, userId, taskId) ==
    IF userId = "" \/ userId \notin DOMAIN us THEN us
    ELSE [us EXCEPT ![userId].pendingTasks =
                        IF taskId \in Range(@) THEN @ ELSE Append(@, taskId),
                    ![userId].name = "unassigned"]

\* User.updateOne({_id, pendingTasks: {$ne: taskId}}, {$push: {pendingTasks: taskId}})
addTaskToUser(us, userId, taskId) ==
    IF userId = "" THEN us
    ELSE IF userId \in DOMAIN us /\ taskId \notin Range(us[userId].pendingTasks)
         THEN [us EXCEPT ![userId].pendingTasks = Append(@, taskId)]
         ELSE us

\* User.updateOne({_id}, {$pull: {pendingTasks: taskId}})
removeTaskFromUser(us, userId, taskId) ==
    IF userId = "" THEN us
    ELSE IF userId \in DOMAIN us
         THEN [us EXCEPT ![userId].pendingTasks =
                  Without(@, {taskId})]
         ELSE us

\* Task.updateMany({_id: {$in: ids}}, {assignedUser, assignedUserName})
assignTasks(ts, ids, userId, userName) ==
    [t \in DOMAIN ts |->
        IF t \in Range(ids)
        THEN [ts[t] EXCEPT !.assignedUser = userId, !.assignedUserName = userName]
        ELSE ts[t]]

\* User.updateMany({_id: {$ne: id}, pendingTasks: {$in: ids}},
\*                 {$pull: {pendingTasks: {$in: ids}}})
pullFromOthers(us, id, ids) ==
    [u \in DOMAIN us |->
        IF u # id
        THEN [us[u] EXCEPT !.pendingTasks = Without(@, Range(ids))]
        ELSE us[u]]

\* collection with one document added / removed
Insert(coll, id, doc) == [k \in DOMAIN coll \cup {id} |-> IF k = id THEN doc ELSE coll[k]]
Remove(coll, id)      == [k \in DOMAIN coll \ {id} |-> coll[k]]

\* no storage call failed, and what is kept of a failed one: the call, and
\* whether its error left the handler
NoFault == "none"
NoFailure == [call |-> NoFault, escaped |-> FALSE]

\* outcome of a handler: the collections it leaves and res.status(..).json({message})
Result(ts, us, status, msg) ==
    [tasks |-> ts, users |-> us, resp |-> [status |-> status, message |-> msg]]
Reject(status, msg) == Result(tasks, users, status, msg)

\* ------------------------------------------------------------ POST /api/tasks
\* request bodies: every body that has name and deadline, and one body for
\* each of the two required fields missing
TaskBodies ==
    [name : TaskNames, deadline : {Deadline}, completed : BOOLEAN,
     assignedUser : UserIdInputs \cup {""}, assignedUserName : Names \cup {""}]
    \cup [name : {""}, deadline : {Deadline}, completed : {FALSE},
          assignedUser : {""}, assignedUserName : {""}]
    \cup [name : TaskNames, deadline : {""}, completed : {TRUE},
          assignedUser : IssuedUserIds, assignedUserName : {""}]

tasksPost(body) ==
    IF body.name = "" \/ body.deadline = "" THEN Reject(400, "name and deadline are required")
    ELSE IF body.assignedUser # "" /\ ~isValid(body.assignedUser) THEN Reject(400, "invalid assignedUser id format")
    ELSE IF body.assignedUser # "" /\ body.assignedUser \notin DOMAIN users THEN Reject(404, "assigned user does not exist")
    ELSE IF body.assignedUser # "" /\ body.assignedUserName # ""
            /\ body.assignedUserName # users[body.assignedUser].name THEN Reject(400, "assignedUserName does not match user name")
    ELSE
      LET id    == TaskId(nextTask + 1)
          aName == IF body.assignedUser # ""
                   THEN IF body.assignedUserName # ""
                        THEN body.assignedUserName
                        ELSE users[body.assignedUser].name
                   ELSE body.assignedUserName      \* assignedUserName || ''
          doc   == [name |-> body.name, deadline |-> body.deadline,
                    completed |-> body.completed,
                    assignedUser |-> body.assignedUser, assignedUserName |-> aName]
          us    == IF body.assignedUser # "" /\ ~body.completed
                   THEN addTaskToUser(users, body.assignedUser, id)
                   ELSE users
      IN  Result(Insert(tasks, id, doc), us, 201, "Task created")

Respond(req, r) ==
    /\ tasks' = r.tasks
    /\ users' = r.users
    /\ resp' = r.resp
    /\ lastReq' = req
    /\ failure' = NoFailure
    /\ UNCHANGED inflight

TaskPost ==
    /\ nextTask < MaxTasks
    /\ \E body \in TaskBodies :
        LET r == tasksPost(body)
        IN  /\ Respond("POST /tasks", r)
            /\ nextTask' = IF r.resp.status = 201 THEN nextTask + 1 ELSE nextTask
            /\ UNCHANGED nextUser

\* --------------------------------------------------------- PUT /api/tasks/:id
\* task.assignedUserName after the field updates of the handler
putAssignedUserName(task, body) ==
    IF body.assignedUser # ""
    THEN IF body.assignedUserName # ""             \* resolvedAssignedUserName
         THEN body.assignedUserName
         ELSE users[body.assignedUser].name
    ELSE IF body.assignedUserName # "" THEN body.assignedUserName
         ELSE IF body.assignedUser # ""      \* task.assignedUser, just set from the body
              THEN task.assignedUserName
              ELSE "unassigned"

\* (mutant) the pull on completion is left out
putSideEffectsNoPullOnComplete(us, id, oldAssigned, oldCompleted, task) ==
    LET a == IF oldAssigned # "" /\ oldAssigned # task.assignedUser
             THEN removeTaskFromUser(us, oldAssigned, id) ELSE us
        b == IF task.assignedUser # "" /\ ~task.completed
             THEN addTaskToUser(a, task.assignedUser, id) ELSE a
    IN  b

\* (mutant) the add to the new assignee's pendingTasks is left out
putSideEffectsNoAdd(us, id, oldAssigned, oldCompleted, task) ==
    LET a == IF oldAssigned # "" /\ oldAssigned # task.assignedUser
             THEN removeTaskFromUser(us, oldAssigned, id) ELSE us
        c == IF task.completed /\ oldCompleted = FALSE /\ task.assignedUser # ""
             THEN removeTaskFromUser(a, task.assignedUser, id) ELSE a
    IN  c

\* the three writes to pendingTasks that follow task.save()
putSideEffects(us, id, oldAssigned, oldCompleted, task) ==
    LET a == IF oldAssigned # "" /\ oldAssigned # task.assignedUser
             THEN removeTaskFromUser(us, oldAssigned, id) ELSE us
        b == IF task.assignedUser # "" /\ ~task.completed
             THEN addTaskToUser(a, task.assignedUser, id) ELSE a
        c == IF task.completed /\ oldCompleted = FALSE /\ task.assignedUser # ""
             THEN removeTaskFromUser(b, task.assignedUser, id) ELSE b
    IN  c

\* (mutant) the completed guard never fires
alreadyCompletedNever(task) == FALSE

alreadyCompleted(task) == task.completed = TRUE

tasksPut(id, body) ==
    IF ~isValid(id) THEN Reject(400, "invalid task id format")
    ELSE IF body.name = "" \/ body.deadline = "" THEN Reject(400, "name and deadline are required")
    ELSE IF id \notin DOMAIN tasks THEN Reject(404, "Not Found")
    ELSE IF alreadyCompleted(tasks[id]) THEN Reject(400, "cannot modify a completed task")
    ELSE IF body.assignedUser # "" /\ ~isValid(body.assignedUser) THEN Reject(400, "invalid assignedUser id format")
    ELSE IF body.assignedUser # "" /\ body.assignedUser \notin DOMAIN users THEN Reject(404, "assigned user does not exist")
    ELSE IF body.assignedUser # "" /\ body.assignedUserName # ""
            /\ body.assignedUserName # users[body.assignedUser].name THEN Reject(400, "assignedUserName does not match user name")
    ELSE
      LET old == tasks[id]
          doc == [name |-> body.name, deadline |-> body.deadline,
                  completed |-> body.completed,
                  assignedUser |-> body.assignedUser,
                  assignedUserName |-> putAssignedUserName(old, body)]
      IN  Result([tasks EXCEPT ![id] = doc],
                 putSideEffects(users, id, old.assignedUser, old.completed, doc),
                 200, "Task updated")

TaskPut ==
    \E id \in TaskIdInputs, body \in TaskBodies :
        /\ Respond("PUT /tasks", tasksPut(id, body))
        /\ UNCHANGED <<nextTask, nextUser>>

\* ------------------------------------------------------ DELETE /api/tasks/:id
tasksDelete(id) ==
    IF ~isValid(id) THEN Reject(400, "invalid task id format")
    ELSE IF id \notin DOMAIN tasks THEN Reject(404, "Not Found")
    ELSE
      LET us == IF tasks[id].assignedUser # ""
                THEN removeTaskFromUser(users, tasks[id].assignedUser, id)
                ELSE users
      IN  Result(Remove(tasks, id), us, 204, "")

TaskDelete ==
    \E id \in TaskIdInputs :
        /\ Respond("DELETE /tasks", tasksDelete(id))
        /\ UNCHANGED <<nextTask, nextUser>>

\* ------------------------------------------------------------ POST /api/users
UserBodies ==
    [name : Names, email : Emails, pendingTasks : PendingInputs]
    \cup [name : {""}, email : Emails, pendingTasks : {<<>>}]
    \cup [name : Names, email : {""}, pendingTasks : {<<>>}]

\* (mutant) the duplicate-email lookup finds nothing
emailTakenNever(email, id) == FALSE

\* User.findOne({email: email, _id: {$ne: id}}) finds a document
emailTaken(email, id) == \E u \in DOMAIN users : u # id /\ users[u].email = email

\* Task.find({_id: {$in: ids}}): the documents found
tasksFound(ids) == {t \in DOMAIN tasks : t \in Range(ids)}

\* the cast of an id of the $in list to ObjectId fails
castFails(ids) == \E i \in 1..Len(ids) : ~isValid(ids[i])

\* (mutant) no found Task counts as completed
completedIdsNone(ids) == {}

\* tasksFound.filter(t => t.completed === true).map(t => t._id)
completedIds(ids) == {t \in tasksFound(ids) : tasks[t].completed = TRUE}

\* toAdd.filter(x => foundIds.indexOf(x.toString()) === -1): the 404 payload
missingIds(add) == Without(add, tasksFound(add))

usersPost(body) ==
    IF body.name = "" \/ body.email = "" THEN Reject(400, "name and email are required")
    ELSE IF emailTaken(body.email, "") THEN Reject(400, "email already exists")
    ELSE IF Len(body.pendingTasks) > 0 /\ castFails(body.pendingTasks)
         THEN Reject(400, "invalid task id in pendingTasks")
    ELSE IF Len(body.pendingTasks) > 0 /\ completedIds(body.pendingTasks) # {}
         THEN Reject(400, "cannot add completed tasks to pendingTasks")
    ELSE
      LET id  == UserId(nextUser + 1)
          doc == [name |-> body.name, email |-> body.email,
                  pendingTasks |-> body.pendingTasks, dateCreated |-> nextUser + 1]
          ts  == IF Len(body.pendingTasks) > 0
                 THEN assignTasks(tasks, body.pendingTasks, id, body.name)
                 ELSE tasks
      IN  Result(ts, Insert(users, id, doc), 201, "User created")

UserPost ==
    /\ nextUser < MaxUsers
    /\ \E body \in UserBodies :
        LET r == usersPost(body)
        IN  /\ Respond("POST /users", r)
            /\ nextUser' = IF r.resp.status = 201 THEN nextUser + 1 ELSE nextUser
            /\ UNCHANGED nextTask

\* --------------------------------------------------------- PUT /api/users/:id
\* (mutant) every id of the stored list counts as removed
toRemoveAll(old, newPending) == old

toRemove(old, newPending) == Without(old, Range(newPending))
toAdd(old, newPending)    == Without(newPending, Range(old))

usersPut(id, body) ==
    IF body.name = "" \/ body.email = "" THEN Reject(400, "name and email are required")
    ELSE IF ~isValid(id) THEN Reject(400, "invalid user id format")
    ELSE IF emailTaken(body.email, id) THEN Reject(400, "email already exists")
    ELSE IF id \notin DOMAIN users THEN Reject(404, "Not Found")
    ELSE
      LET user       == users[id]
          newPending == body.pendingTasks
          rem        == toRemove(user.pendingTasks, newPending)
          \* Task.updateMany(toRemove, {assignedUser: '', assignedUserName: 'unassigned'})
          ts1        == IF Len(rem) > 0 THEN assignTasks(tasks, rem, "", "unassigned")
                        ELSE tasks
          add        == toAdd(user.pendingTasks, newPending)
      IN  IF Len(add) > 0 /\ castFails(add)
               THEN Result(ts1, users, 400, "invalid task id format in pendingTasks")
          ELSE IF Len(add) > 0 /\ Cardinality(tasksFound(add)) # Len(add)
               THEN Result(ts1, users, 404, "some task ids do not exist")
          ELSE IF Len(add) > 0 /\ completedIds(add) # {}
               THEN Result(ts1, users, 400, "cannot add completed tasks to pendingTasks")
          ELSE
            LET us1 == IF Len(add) > 0 THEN pullFromOthers(users, id, add) ELSE users
                ts2 == IF Len(add) > 0 THEN assignTasks(ts1, add, id, body.name) ELSE ts1
                doc == [user EXCEPT !.name = body.name, !.email = body.email,
                                    !.pendingTasks = newPending]
            IN  Result(ts2, [us1 EXCEPT ![id] = doc], 200, "User updated")

UserPut ==
    \E id \in UserIdInputs, body \in UserBodies :
        /\ Respond("PUT /users", usersPut(id, body))
        /\ UNCHANGED <<nextTask, nextUser>>

\* ------------------------------------------------------ DELETE /api/users/:id
\* (mutant) the User is deleted and its pending Tasks are left as they are
usersDeleteNoCascade(id) ==
    IF ~isValid(id) THEN Reject(500, "Server error")
    ELSE IF id \notin DOMAIN users THEN Reject(404, "Not Found")
    ELSE Result(tasks, Remove(users, id), 204, "")

usersDelete(id) ==
    IF ~isValid(id) THEN Reject(500, "Server error")   \* findById rejects (CastError), caught
    ELSE IF id \notin DOMAIN users THEN Reject(404, "Not Found")
    ELSE
      LET pend == users[id].pendingTasks
          ts   == IF Len(pend) > 0 THEN assignTasks(tasks, pend, "", "unassigned")
                  ELSE tasks
      IN  Result(ts, Remove(users, id), 204, "")

UserDelete ==
    \E id \in UserIdInputs :
        /\ Respond("DELETE /users", usersDelete(id))
        /\ UNCHANGED <<nextTask, nextUser>>

NoReq == "none"

\* the requests that may be in flight, and the slot of one that is not
Procs == {1, 2}
NoBody == [name |-> "", email |-> "", pendingTasks |-> <<>>]
NoDoc == [name |-> "", email |-> "", pendingTasks |-> <<>>, dateCreated |-> 0]
Idle == [op |-> NoReq, pc |-> "", id |-> "", body |-> NoBody, loaded |-> NoDoc]

Init ==
    /\ tasks = <<>>
    /\ users = <<>>
    /\ nextTask = 0
    /\ nextUser = 0
    /\ lastReq = NoReq
    /\ resp = [status |-> 0, message |-> ""]
    /\ inflight = [p \in Procs |-> Idle]
    /\ failure = NoFailure

TypeOK ==
    /\ DOMAIN tasks \subseteq IssuedTaskIds
    /\ DOMAIN users \subseteq IssuedUserIds
    /\ nextTask \in 0..MaxTasks
    /\ nextUser \in 0..MaxUsers
    /\ resp.status \in {0, 200, 201, 204, 400, 404, 500}
    /\ DOMAIN inflight = Procs
    /\ failure.escaped \in BOOLEAN

Next ==
    \/ TaskPost
    \/ TaskPut
    \/ TaskDelete
    \/ UserPost
    \/ UserPut
    \/ UserDelete

Spec == Init /\ [][Next]_vars

\* ------------------------------------------------------------ query strings
\* JavaScript values the query translation produces
undefined == [type |-> "undefined", keys |-> {}, n |-> 0]
null == [type |-> "null", keys |-> {}, n |-> 0]
NaN == [type |-> "NaN", keys |-> {}, n |-> 0]
Number(n) == [type |-> "number", keys |-> {}, n |-> n]
Object(keys) == [type |-> "object", keys |-> keys, n |-> 0]

\* !!v for the values above
Truthy(v) == v.type = "object" \/ (v.type = "number" /\ v.n # 0)
\* a || b
Or(a, b) == IF Truthy(a) THEN a ELSE b
\* isNaN(v): ToNumber(undefined) is NaN
isNaN(v) == v.type \in {"NaN", "undefined"}

\* texts of the JSON-valued parameters: absent, two objects, a number, and a
\* text JSON.parse throws on
SelectName == "{\"name\":1}"
SelectEmail == "{\"email\":1}"
JSONZero == "0"
Malformed == "{name:1"
JSONTexts == {"", SelectName, SelectEmail, JSONZero, Malformed}

\* JSON.parse on the texts it accepts
JSONparse(text) ==
    CASE text = SelectName -> Object({"name"})
      [] text = SelectEmail -> Object({"email"})
      [] text = JSONZero -> Number(0)

parseJSONParam(param) ==
    IF param = "" THEN undefined
    ELSE IF param \in {SelectName, SelectEmail, JSONZero} THEN JSONparse(param)
    ELSE null

\* texts of skip and limit, as sequences of characters: absent, "2", "a",
\* "-1", "1x"
Digits == {"0", "1", "2", "3", "4", "5", "6", "7", "8", "9"}
DigitVal(c) == CHOOSE d \in 0..9 : ToString(d) = c
NumTexts == {<<>>, <<"2">>, <<"a">>, <<"-", "1">>, <<"1", "x">>}

RECURSIVE parseDigits(_, _)
parseDigits(s, acc) ==
    IF s = <<>> \/ Head(s) \notin Digits THEN acc
    ELSE parseDigits(Tail(s), acc * 10 + DigitVal(Head(s)))

\* parseInt(text): optional sign, then the longest prefix of digits
parseInt(s) ==
    LET signed == s # <<>> /\ Head(s) \in {"-", "+"}
        digits == IF signed THEN Tail(s) ELSE s
    IN  IF digits = <<>> \/ Head(digits) \notin Digits THEN NaN
        ELSE IF Head(s) = "-" THEN Number(0 - parseDigits(digits, 0))
        ELSE Number(parseDigits(digits, 0))

DefaultLimit == 100

\* query strings of the by-id reads, which take select (and filter) only
GetQueries == [select : JSONTexts, filter : {"", SelectEmail, Malformed}]

\* query strings of the listings: every choice of the JSON-valued parameters
\* without paging, and every choice of the paging parameters without them
ListQueries ==
    [where : {"", Malformed}, sort : {"", Malformed},
     select : JSONTexts, filter : {"", SelectEmail, Malformed},
     skip : {<<>>}, limit : {<<>>}, count : BOOLEAN]
    \cup [where : {SelectName}, sort : {"", SelectName}, select : {""},
          filter : {""}, skip : {<<>>}, limit : {<<>>}, count : BOOLEAN]
    \cup [where : {""}, sort : {""}, select : {"", Malformed}, filter : {""},
          skip : NumTexts, limit : NumTexts, count : BOOLEAN]

\* the query a list handler has built: a part left undefined was not applied
Query(where, select, sort, skip, limit) ==
    [where  |-> where,
     select |-> IF Truthy(select) THEN select ELSE undefined,
     sort   |-> IF Truthy(sort) THEN sort ELSE undefined,
     skip   |-> IF ~isNaN(skip) THEN skip ELSE undefined,
     limit  |-> IF ~isNaN(limit) THEN limit ELSE undefined]
NoQuery == Query(undefined, undefined, undefined, undefined, undefined)

\* an answer: status, message, the query that was built, and the number of
\* documents (or the count) in data
Answer(status, msg, q, data) ==
    [status |-> status, message |-> msg, query |-> q, data |-> data]

Min(a, b) == IF a < b THEN a ELSE b
Max(a, b) == IF a > b THEN a ELSE b

\* the documents a condition selects: the conditions asked here compare a
\* field with the number 1, which no stored field equals
Matching(coll, where) == IF Truthy(where) THEN {} ELSE DOMAIN coll

\* q.exec() and countDocuments(where): the store refuses a negative skip,
\* reads a negative limit as its absolute value and limit 0 as no limit;
\* the count takes neither skip nor limit
exec(coll, q, count) ==
    LET matched == Cardinality(Matching(coll, q.where))
        skipped == IF q.skip.type = "number" THEN Max(0, matched - q.skip.n)
                   ELSE matched
        limited == IF q.limit.type = "number" /\ q.limit.n # 0
                   THEN Min(skipped, Max(q.limit.n, 0 - q.limit.n))
                   ELSE skipped
    IN  IF count THEN Answer(200, "OK", q, matched)
        ELSE IF q.skip.type = "number" /\ q.skip.n < 0
        THEN Answer(500, "Server error", q, 0)
        ELSE Answer(200, "OK", q, limited)

\* ------------------------------------------------------------- GET /api/tasks
tasksList(query) ==
    LET where  == parseJSONParam(query.where)
        sort   == parseJSONParam(query.sort)
        select == parseJSONParam(query.select)
        skip   == IF query.skip # <<>> THEN parseInt(query.skip) ELSE undefined
        limit  == IF query.limit # <<>> THEN parseInt(query.limit)
                  ELSE Number(DefaultLimit)
    IN  IF where = null \/ sort = null \/ select = null
        THEN Answer(400, "Bad Request: malformed JSON in query parameters", NoQuery, 0)
        ELSE exec(tasks, Query(where, select, sort, skip, limit), query.count)

Read(req, a) ==
    /\ resp' = [status |-> a.status, message |-> a.message]
    /\ lastReq' = req
    /\ failure' = NoFailure
    /\ UNCHANGED <<tasks, users, nextTask, nextUser, inflight>>

TaskList == \E query \in ListQueries : Read("GET /tasks", tasksList(query))

\* --------------------------------------------------------- GET /api/tasks/:id
tasksGet(id, query) ==
    LET select == parseJSONParam(query.select)
    IN  IF select = null
        THEN Answer(400, "Bad Request: malformed JSON in select", NoQuery, 0)
        ELSE IF ~isValid(id)
        THEN Answer(400, "Bad Request: invalid id format", NoQuery, 0)
        ELSE IF id \notin DOMAIN tasks
        THEN Answer(404, "Not Found", Query(undefined, select, undefined, undefined, undefined), 0)
        ELSE Answer(200, "OK", Query(undefined, select, undefined, undefined, undefined), 1)

TaskGet ==
    \E id \in TaskIdInputs, query \in GetQueries :
        Read("GET /tasks/:id", tasksGet(id, query))

\* ------------------------------------------------------------- GET /api/users
usersList(query) ==
    LET where  == parseJSONParam(query.where)
        sort   == parseJSONParam(query.sort)
        select == Or(parseJSONParam(query.select), parseJSONParam(query.filter))
        skip   == IF query.skip # <<>> THEN parseInt(query.skip) ELSE undefined
        limit  == IF query.limit # <<>> THEN parseInt(query.limit) ELSE undefined
    IN  IF where = null \/ sort = null \/ select = null
        THEN Answer(400, "Bad Request: malformed JSON in query parameters", NoQuery, 0)
        ELSE exec(users, Query(where, select, sort, skip, limit), query.count)

UserList == \E query \in ListQueries : Read("GET /users", usersList(query))

\* --------------------------------------------------------- GET /api/users/:id
\* no format check on the id: findById rejects a malformed one (CastError)
usersGet(id, query) ==
    LET select == Or(parseJSONParam(query.select), parseJSONParam(query.filter))
    IN  IF select = null
        THEN Answer(400, "Bad Request: malformed JSON in select", NoQuery, 0)
        ELSE IF ~isValid(id)
        THEN Answer(500, "Server error", Query(undefined, select, undefined, undefined, undefined), 0)
        ELSE IF id \notin DOMAIN users
        THEN Answer(404, "Not Found", Query(undefined, select, undefined, undefined, undefined), 0)
        ELSE Answer(200, "OK", Query(undefined, select, undefined, undefined, undefined), 1)

UserGet ==
    \E id \in UserIdInputs, query \in GetQueries :
        Read("GET /users/:id", usersGet(id, query))

\* documents are created and deleted, and read in between
ReadNext ==
    \/ TaskPost
    \/ TaskDelete
    \/ UserPost
    \/ UserDelete
    \/ TaskList
    \/ TaskGet
    \/ UserList
    \/ UserGet

ReadSpec == Init /\ [][ReadNext]_vars

\* ---------------------------------------------------- concurrent User writes
\* Two User create/update requests at a time, each advancing one storage
\* operation per step. The bodies here carry an empty pendingTasks, so the
\* handlers issue findOne, (findById,) save and nothing else.
ThirdEmail == "c@x.com"
RaceBodies == [name : {"Al"}, email : Emails \cup {ThirdEmail}, pendingTasks : {<<>>}]

\* (mutant) the collection has no unique index on email
emailIndexRefusesNever(us, id, email) == FALSE

\* the unique index on email of the User collection refuses a write that
\* would give a second document the same email
emailIndexRefuses(us, id, email) ==
    \E v \in DOMAIN us : v # id /\ us[v].email = email

\* the request of p ends with this response
Finish(p, req, status, msg) ==
    /\ inflight' = [inflight EXCEPT ![p] = Idle]
    /\ lastReq' = req
    /\ resp' = [status |-> status, message |-> msg]

\* users.post: the body passed the name/email check; the id of the new
\* document is drawn when the request starts
BeginUserPost(p) ==
    /\ inflight[p] = Idle
    /\ nextUser < MaxUsers
    /\ \E body \in RaceBodies :
          inflight' = [inflight EXCEPT ![p] =
                          [op |-> "POST /users", pc |-> "findOne",
                           id |-> UserId(nextUser + 1), body |-> body,
                           loaded |-> NoDoc]]
    /\ nextUser' = nextUser + 1
    /\ UNCHANGED <<tasks, users, nextTask, lastReq, resp, failure>>

\* users.put: name/email check and id format check, before any storage call
BeginUserPut(p) ==
    /\ inflight[p] = Idle
    /\ \E id \in UserIdInputs, body \in RaceBodies :
          IF ~isValid(id)
          THEN /\ Finish(p, "PUT /users", 400, "invalid user id format")
          ELSE /\ inflight' = [inflight EXCEPT ![p] =
                                  [op |-> "PUT /users", pc |-> "findOne",
                                   id |-> id, body |-> body, loaded |-> NoDoc]]
               /\ UNCHANGED <<lastReq, resp>>
    /\ UNCHANGED <<tasks, users, nextTask, nextUser, failure>>

\* await User.findOne({email}) / User.findOne({email, _id: {$ne: id}})
FindOne(p) ==
    LET r == inflight[p]
    IN  /\ r.pc = "findOne"
        /\ IF emailTaken(r.body.email, r.id)
           THEN Finish(p, r.op, 400, "email already exists")
           ELSE /\ inflight' = [inflight EXCEPT ![p].pc =
                                   IF r.op = "POST /users" THEN "save" ELSE "findById"]
                /\ UNCHANGED <<lastReq, resp>>
        /\ UNCHANGED <<tasks, users, nextTask, nextUser, failure>>

\* await User.findById(req.params.id)
FindById(p) ==
    LET r == inflight[p]
    IN  /\ r.pc = "findById"
        /\ IF r.id \notin DOMAIN users
           THEN Finish(p, r.op, 404, "Not Found")
           ELSE /\ inflight' = [inflight EXCEPT ![p].pc = "save",
                                                ![p].loaded = users[r.id]]
                /\ UNCHANGED <<lastReq, resp>>
        /\ UNCHANGED <<tasks, users, nextTask, nextUser, failure>>

\* the document save() leaves in the store: a new document as built, a
\* loaded one with the paths the handler changed
saved(r) ==
    IF r.op = "POST /users"
    THEN [name |-> r.body.name, email |-> r.body.email,
          pendingTasks |-> r.body.pendingTasks, dateCreated |-> nextUser]
    ELSE [users[r.id] EXCEPT
            !.name = IF r.body.name # r.loaded.name THEN r.body.name ELSE @,
            !.email = IF r.body.email # r.loaded.email THEN r.body.email ELSE @,
            !.pendingTasks = IF r.body.pendingTasks # r.loaded.pendingTasks
                             THEN r.body.pendingTasks ELSE @]

\* await u.save() / await user.save(); a refused write is thrown into the
\* handler's catch
Save(p) ==
    LET r == inflight[p]
    IN  /\ r.pc = "save"
        /\ IF emailIndexRefuses(users, r.id, saved(r).email)
           THEN /\ Finish(p, r.op, 500, "Server error")
                /\ UNCHANGED users
           ELSE /\ users' = Insert(users, r.id, saved(r))
                /\ IF r.op = "POST /users"
                   THEN Finish(p, r.op, 201, "User created")
                   ELSE Finish(p, r.op, 200, "User updated")
        /\ UNCHANGED <<tasks, nextTask, nextUser, failure>>

RaceNext ==
    \E p \in Procs :
        \/ BeginUserPost(p)
        \/ BeginUserPut(p)
        \/ FindOne(p)
        \/ FindById(p)
        \/ Save(p)

RaceSpec == Init /\ [][RaceNext]_vars

\* ----------------------------------------------------------- storage failures
\* The handlers once more, with one storage call of the request failing:
\* fault names the call (NoFault: none fails). The outcome says in "failed"
\* whether the named call was reached, and in "escaped" whether its error
\* left the handler.

\* the call ran, or was not reached
Ran(r) ==
    [tasks |-> r.tasks, users |-> r.users, resp |-> r.resp,
     failed |-> FALSE, escaped |-> FALSE]
\* (mutant) no try/catch around the handler: the error leaves it and no
\* response is sent
ThrownOut(ts, us) ==
    [tasks |-> ts, users |-> us, resp |-> [status |-> 0, message |-> ""],
     failed |-> TRUE, escaped |-> TRUE]

\* catch (err) { return res.status(500).json({message: 'Server error'}) }
Thrown(ts, us) ==
    [tasks |-> ts, users |-> us,
     resp |-> [status |-> 500, message |-> "Server error"],
     failed |-> TRUE, escaped |-> FALSE]
\* .catch(function () { }): the error is dropped and the handler goes on
Swallowed(r) ==
    [tasks |-> r.tasks, users |-> r.users, resp |-> r.resp,
     failed |-> TRUE, escaped |-> FALSE]
\* the inner catch (e) around Task.find
Refused(ts, us) ==
    [tasks |-> ts, users |-> us,
     resp |-> [status |-> 400, message |-> "invalid task id in pendingTasks"],
     failed |-> TRUE, escaped |-> FALSE]

TaskPostFaults == {"User.findById", "t.save", "addTaskToUser"}

tasksPostF(body, fault) ==
    IF body.name = "" \/ body.deadline = ""
      THEN Ran(Reject(400, "name and deadline are required"))
    ELSE IF body.assignedUser # "" /\ ~isValid(body.assignedUser)
      THEN Ran(Reject(400, "invalid assignedUser id format"))
    ELSE IF body.assignedUser # "" /\ fault = "User.findById"
      THEN Thrown(tasks, users)
    ELSE IF body.assignedUser # "" /\ body.assignedUser \notin DOMAIN users
      THEN Ran(Reject(404, "assigned user does not exist"))
    ELSE IF body.assignedUser # "" /\ body.assignedUserName # ""
            /\ body.assignedUserName # users[body.assignedUser].name
      THEN Ran(Reject(400, "assignedUserName does not match user name"))
    ELSE IF fault = "t.save" THEN Thrown(tasks, users)
    ELSE IF body.assignedUser # "" /\ ~body.completed /\ fault = "addTaskToUser"
      THEN Swallowed(Result(tasksPost(body).tasks, users, 201, "Task created"))
    ELSE Ran(tasksPost(body))

TaskPutFaults ==
    {"Task.findById", "User.findById", "task.save", "removeTaskFromUser (old)",
     "addTaskToUser", "removeTaskFromUser (completed)"}

tasksPutF(id, body, fault) ==
    IF ~isValid(id) THEN Ran(Reject(400, "invalid task id format"))
    ELSE IF body.name = "" \/ body.deadline = ""
      THEN Ran(Reject(400, "name and deadline are required"))
    ELSE IF fault = "Task.findById" THEN Thrown(tasks, users)
    ELSE IF id \notin DOMAIN tasks THEN Ran(Reject(404, "Not Found"))
    ELSE IF alreadyCompleted(tasks[id])
      THEN Ran(Reject(400, "cannot modify a completed task"))
    ELSE IF body.assignedUser # "" /\ ~isValid(body.assignedUser)
      THEN Ran(Reject(400, "invalid assignedUser id format"))
    ELSE IF body.assignedUser # "" /\ fault = "User.findById"
      THEN Thrown(tasks, users)
    ELSE IF body.assignedUser # "" /\ body.assignedUser \notin DOMAIN users
      THEN Ran(Reject(404, "assigned user does not exist"))
    ELSE IF body.assignedUser # "" /\ body.assignedUserName # ""
            /\ body.assignedUserName # users[body.assignedUser].name
      THEN Ran(Reject(400, "assignedUserName does not match user name"))
    ELSE IF fault = "task.save" THEN Thrown(tasks, users)
    ELSE
      LET old == tasks[id]
          ts  == tasksPut(id, body).tasks
          doc == ts[id]
          a   == IF old.assignedUser # "" /\ old.assignedUser # doc.assignedUser
                 THEN removeTaskFromUser(users, old.assignedUser, id) ELSE users
          b   == IF doc.assignedUser # "" /\ ~doc.completed
                 THEN addTaskToUser(a, doc.assignedUser, id) ELSE a
      IN  IF old.assignedUser # "" /\ old.assignedUser # doc.assignedUser
             /\ fault = "removeTaskFromUser (old)"
            THEN Thrown(ts, users)
          ELSE IF doc.assignedUser # "" /\ ~doc.completed /\ fault = "addTaskToUser"
            THEN Thrown(ts, a)
          ELSE IF doc.completed /\ old.completed = FALSE /\ doc.assignedUser # ""
                  /\ fault = "removeTaskFromUser (completed)"
            THEN Thrown(ts, b)
          ELSE Ran(tasksPut(id, body))

TaskDeleteFaults == {"Task.findById", "removeTaskFromUser", "Task.deleteOne"}

tasksDeleteF(id, fault) ==
    IF ~isValid(id) THEN Ran(Reject(400, "invalid task id format"))
    ELSE IF fault = "Task.findById" THEN Thrown(tasks, users)
    ELSE IF id \notin DOMAIN tasks THEN Ran(Reject(404, "Not Found"))
    ELSE IF tasks[id].assignedUser # "" /\ fault = "removeTaskFromUser"
      THEN Thrown(tasks, users)
    ELSE IF fault = "Task.deleteOne" THEN Thrown(tasks, tasksDelete(id).users)
    ELSE Ran(tasksDelete(id))

UserPostFaults == {"User.findOne", "Task.find", "u.save", "Task.updateMany"}

usersPostF(body, fault) ==
    IF body.name = "" \/ body.email = ""
      THEN Ran(Reject(400, "name and email are required"))
    ELSE IF fault = "User.findOne" THEN Thrown(tasks, users)
    ELSE IF emailTaken(body.email, "") THEN Ran(Reject(400, "email already exists"))
    ELSE IF Len(body.pendingTasks) > 0 /\ fault = "Task.find"
      THEN Refused(tasks, users)
    ELSE IF Len(body.pendingTasks) > 0 /\ castFails(body.pendingTasks)
      THEN Ran(Reject(400, "invalid task id in pendingTasks"))
    ELSE IF Len(body.pendingTasks) > 0 /\ completedIds(body.pendingTasks) # {}
      THEN Ran(Reject(400, "cannot add completed tasks to pendingTasks"))
    ELSE IF fault = "u.save" THEN Thrown(tasks, users)
    ELSE IF Len(body.pendingTasks) > 0 /\ fault = "Task.updateMany"
      THEN Swallowed(Result(tasks, usersPost(body).users, 201, "User created"))
    ELSE Ran(usersPost(body))

UserPutFaults ==
    {"User.findOne", "User.findById", "Task.updateMany (removed)", "Task.find",
     "User.updateMany", "Task.updateMany (added)", "user.save"}

usersPutF(id, body, fault) ==
    IF body.name = "" \/ body.email = ""
      THEN Ran(Reject(400, "name and email are required"))
    ELSE IF ~isValid(id) THEN Ran(Reject(400, "invalid user id format"))
    ELSE IF fault = "User.findOne" THEN Thrown(tasks, users)
    ELSE IF emailTaken(body.email, id) THEN Ran(Reject(400, "email already exists"))
    ELSE IF fault = "User.findById" THEN Thrown(tasks, users)
    ELSE IF id \notin DOMAIN users THEN Ran(Reject(404, "Not Found"))
    ELSE
      LET rem == toRemove(users[id].pendingTasks, body.pendingTasks)
          add == toAdd(users[id].pendingTasks, body.pendingTasks)
          ts1 == IF Len(rem) > 0 THEN assignTasks(tasks, rem, "", "unassigned")
                 ELSE tasks
          us1 == pullFromOthers(users, id, add)
          r   == usersPut(id, body)
      IN  IF Len(rem) > 0 /\ fault = "Task.updateMany (removed)"
            THEN Thrown(tasks, users)
          ELSE IF Len(add) > 0 /\ castFails(add) THEN Ran(r)
          ELSE IF Len(add) > 0 /\ fault = "Task.find" THEN Refused(ts1, users)
          ELSE IF r.resp.status # 200 THEN Ran(r)
          ELSE IF Len(add) > 0 /\ fault = "User.updateMany" THEN Thrown(ts1, users)
          ELSE IF Len(add) > 0 /\ fault = "Task.updateMany (added)"
            THEN Thrown(ts1, us1)
          ELSE IF fault = "user.save" THEN Thrown(r.tasks, IF Len(add) > 0 THEN us1 ELSE users)
          ELSE Ran(r)

UserDeleteFaults == {"User.findById", "Task.updateMany", "User.deleteOne"}

usersDeleteF(id, fault) ==
    IF fault = "User.findById" THEN Thrown(tasks, users)
    ELSE IF ~isValid(id) THEN Ran(Reject(500, "Server error"))
    ELSE IF id \notin DOMAIN users THEN Ran(Reject(404, "Not Found"))
    ELSE IF Len(users[id].pendingTasks) > 0 /\ fault = "Task.updateMany"
      THEN Thrown(tasks, users)
    ELSE IF fault = "User.deleteOne" THEN Thrown(usersDelete(id).tasks, users)
    ELSE Ran(usersDelete(id))

\* the reads: q.exec() or countDocuments is rejected and the promise's
\* .catch answers
ReadFaults == {"exec"}

readF(a, fault) ==
    LET r == [tasks |-> tasks, users |-> users,
              resp |-> [status |-> a.status, message |-> a.message]]
    IN  IF a.status # 400 /\ fault = "exec" THEN Thrown(tasks, users)
        ELSE Ran(r)

\* the answer to a request that met the failing call
RespondF(req, r, fault) ==
    /\ r.failed
    /\ tasks' = r.tasks
    /\ users' = r.users
    /\ resp' = r.resp
    /\ lastReq' = req
    /\ failure' = [call |-> fault, escaped |-> r.escaped]
    /\ UNCHANGED inflight

\* one storage call fails in a run: no request follows the one that met it
TaskPostSound == failure = NoFailure /\ TaskPost
UserPostSound == failure = NoFailure /\ UserPost

TaskPostFault ==
    /\ failure = NoFailure
    /\ nextTask < MaxTasks
    /\ \E body \in TaskBodies, fault \in TaskPostFaults :
        LET r == tasksPostF(body, fault)
        IN  /\ RespondF("POST /tasks", r, fault)
            /\ nextTask' = IF r.resp.status = 201 THEN nextTask + 1 ELSE nextTask
            /\ UNCHANGED nextUser

TaskPutFault ==
    /\ failure = NoFailure
    /\ \E id \in TaskIdInputs, body \in TaskBodies, fault \in TaskPutFaults :
        LET r == tasksPutF(id, body, fault)
        IN  /\ RespondF("PUT /tasks", r, fault)
            /\ UNCHANGED <<nextTask, nextUser>>

TaskDeleteFault ==
    /\ failure = NoFailure
    /\ \E id \in TaskIdInputs, fault \in TaskDeleteFaults :
        LET r == tasksDeleteF(id, fault)
        IN  /\ RespondF("DELETE /tasks", r, fault)
            /\ UNCHANGED <<nextTask, nextUser>>

UserPostFault ==
    /\ failure = NoFailure
    /\ nextUser < MaxUsers
    /\ \E body \in UserBodies, fault \in UserPostFaults :
        LET r == usersPostF(body, fault)
        IN  /\ RespondF("POST /users", r, fault)
            /\ nextUser' = IF r.resp.status = 201 THEN nextUser + 1 ELSE nextUser
            /\ UNCHANGED nextTask

UserPutFault ==
    /\ failure = NoFailure
    /\ \E id \in UserIdInputs, body \in UserBodies, fault \in UserPutFaults :
        LET r == usersPutF(id, body, fault)
        IN  /\ RespondF("PUT /users", r, fault)
            /\ UNCHANGED <<nextTask, nextUser>>

UserDeleteFault ==
    /\ failure = NoFailure
    /\ \E id \in UserIdInputs, fault \in UserDeleteFaults :
        LET r == usersDeleteF(id, fault)
        IN  /\ RespondF("DELETE /users", r, fault)
            /\ UNCHANGED <<nextTask, nextUser>>

ReadFault ==
    /\ failure = NoFailure
    /\ \E fault \in ReadFaults :
          \/ \E query \in ListQueries :
                LET r == readF(tasksList(query), fault)
                IN  RespondF("GET /tasks", r, fault)
          \/ \E id \in TaskIdInputs, query \in GetQueries :
                LET r == readF(tasksGet(id, query), fault)
                IN  RespondF("GET /tasks/:id", r, fault)
          \/ \E query \in ListQueries :
                LET r == readF(usersList(query), fault)
                IN  RespondF("GET /users", r, fault)
          \/ \E id \in UserIdInputs, query \in GetQueries :
                LET r == readF(usersGet(id, query), fault)
                IN  RespondF("GET /users/:id", r, fault)
    /\ UNCHANGED <<nextTask, nextUser>>

\* documents are created, and any request may meet a failing storage call
FailNext ==
    \/ TaskPostSound
    \/ UserPostSound
    \/ TaskPostFault
    \/ TaskPutFault
    \/ TaskDeleteFault
    \/ UserPostFault
    \/ UserPutFault
    \/ UserDeleteFault
    \/ ReadFault

FailSpec == Init /\ [][FailNext]_vars

\* ------------------------------------------------------------------ claims
pending(u) == Range(users[u].pendingTasks)

\* C1 (I1): every existing Task that is assigned and not completed has its
\* id in the pendingTasks of the User it is assigned to.
I1 ==
    \A t \in DOMAIN tasks :
        (tasks[t].assignedUser # "" /\ ~tasks[t].completed)
            => /\ tasks[t].assignedUser \in DOMAIN users
               /\ t \in pending(tasks[t].assignedUser)

\* a User update has just put an incomplete Task in the list of its new owner
I1Witness ==
    /\ lastReq = "PUT /users"
    /\ resp.status = 200
    /\ \E t \in DOMAIN tasks :
        /\ ~tasks[t].completed
        /\ tasks[t].assignedUser \in DOMAIN users
        /\ t \in pending(tasks[t].assignedUser)

\* C2 (I2): no User's pendingTasks holds the id of a Task that is completed
\* or whose assignedUser is empty.
I2 ==
    \A t \in DOMAIN tasks :
        (tasks[t].completed \/ tasks[t].assignedUser = "")
            => \A u \in DOMAIN users : t \notin pending(u)

\* C3 (I3): every Task's assignedUserName is the current name of the User
\* its assignedUser names, or "unassigned" when assignedUser is empty.
I3 ==
    \A t \in DOMAIN tasks :
        IF tasks[t].assignedUser = ""
        THEN tasks[t].assignedUserName = "unassigned"
        ELSE /\ tasks[t].assignedUser \in DOMAIN users
             /\ tasks[t].assignedUserName = users[tasks[t].assignedUser].name

OnePendingOwner ==
    \A t \in DOMAIN tasks : \A u, v \in DOMAIN users :
        (t \in pending(u) /\ t \in pending(v)) => u = v

\* C6 (I4): no two distinct Users have the same email, and a User create or
\* update whose email is that of another User is answered 400 and changes
\* no User.
EmailUnique ==
    /\ \A u, v \in DOMAIN users : users[u].email = users[v].email => u = v
    /\ \A body \in UserBodies :
          (\E v \in DOMAIN users : users[v].email = body.email)
              => /\ usersPost(body).resp.status = 400
                 /\ usersPost(body).users = users
    /\ \A id \in UserIdInputs, body \in UserBodies :
          (\E v \in DOMAIN users : v # id /\ users[v].email = body.email)
              => /\ usersPut(id, body).resp.status = 400
                 /\ usersPut(id, body).users = users

\* two Users exist and an update asking for the other one's email was refused
EmailUniqueWitness ==
    /\ lastReq = "PUT /users"
    /\ resp = [status |-> 400, message |-> "email already exists"]
    /\ Cardinality(DOMAIN users) = 2

\* C7: a Task update of an existing Task that is already completed is
\* answered 400 and leaves the Task and every User unchanged, whatever the
\* request body.
CompletedTaskPutRejected ==
    \A id \in DOMAIN tasks, body \in TaskBodies :
        tasks[id].completed
            => /\ tasksPut(id, body).resp.status = 400
               /\ tasksPut(id, body).tasks = tasks
               /\ tasksPut(id, body).users = users

\* an update of a completed Task has just been refused
CompletedTaskPutWitness ==
    /\ lastReq = "PUT /tasks"
    /\ resp = [status |-> 400, message |-> "cannot modify a completed task"]
    /\ \E t \in DOMAIN tasks : tasks[t].completed

\* C8: a Task create with name, deadline and a non-empty assignedUser is
\* answered 400 when that id is malformed and 404 when it is well-formed
\* and names no User; either way no Task is stored and no pendingTasks
\* changes.
TaskCreateBadAssignee ==
    \A body \in TaskBodies :
        (body.name # "" /\ body.deadline # "" /\ body.assignedUser # ""
            /\ body.assignedUser \notin DOMAIN users)
        => /\ tasksPost(body).resp.status =
                  IF body.assignedUser = BadId THEN 400 ELSE 404
           /\ tasksPost(body).tasks = tasks
           /\ \A u \in DOMAIN users :
                  tasksPost(body).users[u].pendingTasks = users[u].pendingTasks

\* a create naming a User that does not exist has just been refused, while
\* another User with pending work exists
TaskCreateBadAssigneeWitness ==
    /\ lastReq = "POST /tasks"
    /\ resp = [status |-> 404, message |-> "assigned user does not exist"]
    /\ \E u \in DOMAIN users : users[u].pendingTasks # <<>>

\* C9: a successful User update whose list names an incomplete Task that is
\* pending for a different User leaves the id in the updated User's list
\* only, and the Task carries the updated User's id and new name.
ReassignExclusive ==
    \A id \in DOMAIN users, body \in UserBodies, t \in DOMAIN tasks :
        LET r == usersPut(id, body)
        IN  (/\ t \in Range(body.pendingTasks)
             /\ ~tasks[t].completed
             /\ \E v \in DOMAIN users : v # id /\ t \in pending(v)
             /\ r.resp.status = 200)
            => /\ t \in Range(r.users[id].pendingTasks)
               /\ \A v \in DOMAIN r.users :
                      v # id => t \notin Range(r.users[v].pendingTasks)
               /\ r.tasks[t].assignedUser = id
               /\ r.tasks[t].assignedUserName = body.name

\* C10: right after a User was created with pendingTasks = L, an update of
\* that User with the same list L leaves every Task's assignedUser as it is.
Created == UserId(nextUser)

SameListUpdateKeepsAssignees ==
    (lastReq = "POST /users" /\ resp.status = 201)
    => \A body \in UserBodies :
          body.pendingTasks = users[Created].pendingTasks
              => LET r == usersPut(Created, body)
                 IN  /\ DOMAIN r.tasks = DOMAIN tasks
                     /\ \A t \in DOMAIN tasks :
                            r.tasks[t].assignedUser = tasks[t].assignedUser

\* a User was just created with a list that names an existing Task
SameListUpdateWitness ==
    /\ lastReq = "POST /users"
    /\ resp.status = 201
    /\ \E t \in DOMAIN tasks :
          t \in pending(Created) /\ tasks[t].assignedUser = Created

\* number of times x occurs in the sequence s
Count(s, x) == Len(s) - Len(Without(s, {x}))

\* C11: right after a Task was created incomplete and assigned to an existing
\* User U, U's pendingTasks holds its id exactly once and its assignedUserName
\* is U's name; and whenever an incomplete Task is assigned to U, a
\* successful update that sets completed = true (with or without
\* assignedUser in the body) leaves its id out of U's pendingTasks.
CreatedTask == TaskId(nextTask)

Lifecycle ==
    /\ (/\ lastReq = "POST /tasks" /\ resp.status = 201
        /\ ~tasks[CreatedTask].completed /\ tasks[CreatedTask].assignedUser # "")
       => LET U == tasks[CreatedTask].assignedUser
          IN  /\ U \in DOMAIN users
              /\ Count(users[U].pendingTasks, CreatedTask) = 1
              /\ tasks[CreatedTask].assignedUserName = users[U].name
    /\ \A t \in DOMAIN tasks, body \in TaskBodies :
          LET U == tasks[t].assignedUser
              r == tasksPut(t, body)
          IN  (/\ ~tasks[t].completed /\ U \in DOMAIN users
               /\ body.completed /\ r.resp.status = 200)
              => /\ r.tasks[t].completed
                 /\ t \notin Range(r.users[U].pendingTasks)

\* an update has just completed a Task that is assigned to an existing User,
\* and that User's list does not hold it
LifecycleWitness ==
    /\ lastReq = "PUT /tasks"
    /\ resp.status = 200
    /\ \E t \in DOMAIN tasks :
          /\ tasks[t].completed
          /\ tasks[t].assignedUser \in DOMAIN users
          /\ t \notin pending(tasks[t].assignedUser)

\* C12: a delete of an existing User answers 204, removes that User and no
\* other, deletes no Task, sets assignedUser to "" and assignedUserName to
\* "unassigned" on every Task of the User's pendingTasks and leaves every
\* other Task unchanged.
UserDeleteCascade ==
    \A id \in DOMAIN users :
        LET r == usersDelete(id)
        IN  /\ r.resp.status = 204
            /\ DOMAIN r.users = DOMAIN users \ {id}
            /\ \A u \in DOMAIN r.users : r.users[u] = users[u]
            /\ DOMAIN r.tasks = DOMAIN tasks
            /\ \A t \in DOMAIN tasks :
                  IF t \in pending(id)
                  THEN r.tasks[t] = [tasks[t] EXCEPT !.assignedUser = "",
                                                     !.assignedUserName = "unassigned"]
                  ELSE r.tasks[t] = tasks[t]

\* a User that had a pending Task has just been deleted: the Task is there,
\* unassigned, and no User is left
UserDeleteCascadeWitness ==
    /\ lastReq = "DELETE /users"
    /\ resp.status = 204
    /\ users = <<>>
    /\ \E t \in DOMAIN tasks :
          tasks[t].assignedUser = "" /\ tasks[t].assignedUserName = "unassigned"

\* C13: a delete of an existing Task answers 204, removes the Task, and
\* leaves its id in no User's pendingTasks.
TaskDeleteClearsLists ==
    \A id \in DOMAIN tasks :
        LET r == tasksDelete(id)
        IN  /\ r.resp.status = 204
            /\ id \notin DOMAIN r.tasks
            /\ \A u \in DOMAIN r.users : id \notin Range(r.users[u].pendingTasks)

\* C17: a User create whose pendingTasks lists an existing completed Task is
\* answered 400, stores no User and changes no Task.
CreateWithCompletedRejected ==
    \A body \in UserBodies :
        (\E t \in DOMAIN tasks : t \in Range(body.pendingTasks) /\ tasks[t].completed)
        => /\ usersPost(body).resp.status = 400
           /\ usersPost(body).users = users
           /\ usersPost(body).tasks = tasks

\* a create that listed a completed Task has just been refused
CreateWithCompletedWitness ==
    /\ lastReq = "POST /users"
    /\ resp = [status |-> 400, message |-> "cannot add completed tasks to pendingTasks"]
    /\ \E t \in DOMAIN tasks : tasks[t].completed

\* C18: a User update answers 404 "some task ids do not exist" exactly when
\* one of the newly added (well-formed) ids names no Task, and then the ids
\* it reports as missing are those ids: never an empty list.
MissingIdsExact ==
    \A id \in DOMAIN users, body \in UserBodies :
        LET add == toAdd(users[id].pendingTasks, body.pendingTasks)
            r   == usersPut(id, body)
        IN  (/\ body.name # "" /\ body.email # "" /\ ~emailTaken(body.email, id)
             /\ ~castFails(add))
            => /\ (r.resp.status = 404) <=> (Range(add) \ DOMAIN tasks # {})
               /\ r.resp.status = 404 =>
                     /\ missingIds(add) # <<>>
                     /\ Range(missingIds(add)) = Range(add) \ DOMAIN tasks

\* C14: every operation on one document (get, update, delete of a Task or of
\* a User) answers 400 when the id in the path is malformed.
MalformedIdIs400 ==
    /\ \A query \in GetQueries :
          /\ tasksGet(BadId, query).status = 400
          /\ usersGet(BadId, query).status = 400
    /\ \A body \in TaskBodies : tasksPut(BadId, body).resp.status = 400
    /\ \A body \in UserBodies : usersPut(BadId, body).resp.status = 400
    /\ tasksDelete(BadId).resp.status = 400
    /\ usersDelete(BadId).resp.status = 400

\* C15: in the User list and the User get, a select that is present and
\* malformed is answered 400, and filter is used for the projection only
\* when select is absent.
SelectBeforeFilter ==
    /\ \A query \in ListQueries :
          LET select == parseJSONParam(query.select)
              list   == usersList(query)
          IN  /\ select = null => list.status = 400
              /\ (query.select # "" /\ list.status = 200)
                   => list.query.select \in {select, undefined}
    /\ \A query \in GetQueries, id \in UserIdInputs :
          LET select == parseJSONParam(query.select)
              get    == usersGet(id, query)
          IN  /\ select = null => get.status = 400
              /\ (query.select # "" /\ get.status = 200)
                   => get.query.select \in {select, undefined}

\* the text is a non-negative integer
IsCount(s) == s # <<>> /\ \A i \in 1..Len(s) : s[i] \in Digits

\* C16: in the Task and the User listing, a skip or limit that is present
\* but not a non-negative integer never makes an error and counts as absent:
\* no skip is applied, and the limit is the default (100 for Tasks, none for
\* Users).
BadPagingIsAbsent ==
    \A query \in ListQueries :
        LET t == tasksList(query)
            u == usersList(query)
        IN  /\ t.status \in {200, 400}
            /\ u.status \in {200, 400}
            /\ (t.status = 200 /\ ~IsCount(query.skip)) => t.query.skip = undefined
            /\ (u.status = 200 /\ ~IsCount(query.skip)) => u.query.skip = undefined
            /\ (t.status = 200 /\ ~IsCount(query.skip) /\ ~IsCount(query.limit))
                 => t.data = Min(DefaultLimit, Cardinality(DOMAIN tasks))
            /\ (u.status = 200 /\ ~IsCount(query.skip) /\ ~IsCount(query.limit))
                 => u.data = Cardinality(DOMAIN users)
            /\ (t.status = 200 /\ ~IsCount(query.limit))
                 => t.query.limit = Number(DefaultLimit)
            /\ (u.status = 200 /\ ~IsCount(query.limit)) => u.query.limit = undefined

Statuses == {200, 201, 204, 400, 404, 500}

\* the two writes whose failure is dropped: the route and the call
BestEffort == {<<"POST /tasks", "addTaskToUser">>, <<"POST /users", "Task.updateMany">>}

\* C20: every request ends in one response with a status in {200, 201, 204,
\* 400, 404, 500}; a failing storage call is answered 500 and its error
\* stays inside the handler, except the two best-effort writes (the
\* pendingTasks append of Task create, the re-pointing of Tasks of User
\* create), whose failure leaves the 201, and the lookup of the listed
\* Tasks, whose failure is answered 400.
StorageFailureAnswered ==
    /\ lastReq # NoReq => resp.status \in Statuses
    /\ ~failure.escaped
    /\ failure.call # NoFault =>
          IF <<lastReq, failure.call>> \in BestEffort THEN resp.status = 201
          ELSE IF failure.call = "Task.find" THEN resp.status = 400
          ELSE resp.status = 500

\* a Task update was answered 500 after the Task was saved: the Task names
\* a User whose list was not written
StorageFailureWitness ==
    /\ lastReq = "PUT /tasks"
    /\ failure.call = "addTaskToUser"
    /\ resp = [status |-> 500, message |-> "Server error"]
    /\ \E t \in DOMAIN tasks :
          /\ tasks[t].assignedUser \in DOMAIN users
          /\ ~tasks[t].completed
          /\ t \notin pending(tasks[t].assignedUser)

\* the Users of us are those of the store, with the same name, email and
\* dateCreated
SameUsers(us) ==
    /\ DOMAIN us = DOMAIN users
    /\ \A u \in DOMAIN users :
          /\ us[u].name = users[u].name
          /\ us[u].email = users[u].email
          /\ us[u].dateCreated = users[u].dateCreated

\* C21: a Task create, update or delete of src/routes/tasks.js creates and
\* deletes no User and leaves the name, email and dateCreated of every User
\* as they were, whatever assignedUserName the request carries.
TaskRequestsKeepUsers ==
    /\ \A body \in TaskBodies :
          /\ SameUsers(tasksPost(body).users)
          /\ \A id \in TaskIdInputs : SameUsers(tasksPut(id, body).users)
    /\ \A id \in TaskIdInputs : SameUsers(tasksDelete(id).users)

\* a Task request has just written the pendingTasks of the User it names
TaskRequestsKeepUsersWitness ==
    /\ lastReq \in {"POST /tasks", "PUT /tasks"}
    /\ resp.status \in {200, 201}
    /\ \E t \in DOMAIN tasks :
          /\ tasks[t].assignedUser \in DOMAIN users
          /\ tasks[t].assignedUserName # ""
          /\ t \in pending(tasks[t].assignedUser)

\* C22: a User update answered 400 or 404 leaves every Task and every User
\* as before the request.
RejectedUserPutChangesNothing ==
    \A id \in UserIdInputs, body \in UserBodies :
        LET r == usersPut(id, body)
        IN  r.resp.status \in {400, 404} => r.tasks = tasks /\ r.users = users

\* C23: every id in a User's pendingTasks is the id of an existing Task
\* whose assignedUser is that User.
PendingIdsAreOwnTasks ==
    \A u \in DOMAIN users : \A t \in pending(u) :
        t \in DOMAIN tasks /\ tasks[t].assignedUser = u

\* C24: the non-empty assignedUser of every Task is the id of an existing
\* User.
AssigneeExists ==
    \A t \in DOMAIN tasks :
        tasks[t].assignedUser # "" => tasks[t].assignedUser \in DOMAIN users

\* ------------------------------------------ concurrent updates of one Task
\* Documents are created while no request is in flight; then each process
\* issues one update (tasks.put or users.put) and advances one storage
\* operation per step. A request that has responded stays in its slot with
\* pc "done" and its status.

\* no request is between two storage operations
NoneInFlight == \A p \in Procs : inflight[p] = Idle

\* bodies of the creates: an incomplete Task, a User with an empty list
FirstTaskBodies ==
    [name : TaskNames, deadline : {Deadline}, completed : {FALSE},
     assignedUser : IssuedUserIds \cup {""}, assignedUserName : {""}]
FirstUserBodies == [name : {"Al"}, email : Emails, pendingTasks : {<<>>}]

FirstTaskPost ==
    /\ NoneInFlight
    /\ nextTask < MaxTasks
    /\ \E body \in FirstTaskBodies :
        LET r == tasksPost(body)
        IN  /\ Respond("POST /tasks", r)
            /\ nextTask' = IF r.resp.status = 201 THEN nextTask + 1 ELSE nextTask
            /\ UNCHANGED nextUser

FirstUserPost ==
    /\ NoneInFlight
    /\ nextUser < MaxUsers
    /\ \E body \in FirstUserBodies :
        LET r == usersPost(body)
        IN  /\ Respond("POST /users", r)
            /\ nextUser' = IF r.resp.status = 201 THEN nextUser + 1 ELSE nextUser
            /\ UNCHANGED nextTask

\* bodies of the two updates
PutTaskBodies ==
    [name : TaskNames, deadline : {Deadline}, completed : BOOLEAN,
     assignedUser : IssuedUserIds \cup {""}, assignedUserName : {""}]
PutUserBodies ==
    [name : {"Al"}, email : Emails,
     pendingTasks : {<<>>} \cup {<<t>> : t \in IssuedTaskIds}]

\* a request of this section: op, pc, id and body as above, the document it
\* loaded, the user name it resolved, and its status once it has responded
Request(op, pc, id, body) ==
    [op |-> op, pc |-> pc, id |-> id, body |-> body,
     loaded |-> NoDoc, resolved |-> "", status |-> 0]

\* the request of p responds
Done(p, r, status, msg) ==
    /\ inflight' = [inflight EXCEPT ![p] = [r EXCEPT !.pc = "done", !.status = status]]
    /\ lastReq' = r.op
    /\ resp' = [status |-> status, message |-> msg]

\* the request of p goes on to its next storage operation, or responds 200
\* when none is left
Goto(p, r, pc, msg) ==
    IF pc = "respond" THEN Done(p, r, 200, msg)
    ELSE /\ inflight' = [inflight EXCEPT ![p] = [r EXCEPT !.pc = pc]]
         /\ UNCHANGED <<lastReq, resp>>

\* tasks.put up to its first storage call: id format, name and deadline
BeginTaskPut(p) ==
    /\ inflight[p] = Idle
    /\ \E id \in IssuedTaskIds \cup {BadId}, body \in PutTaskBodies :
          LET r == Request("PUT /tasks", "Task.findById", id, body)
          IN  IF ~isValid(id) THEN Done(p, r, 400, "invalid task id format")
              ELSE IF body.name = "" \/ body.deadline = ""
                   THEN Done(p, r, 400, "name and deadline are required")
              ELSE Goto(p, r, "Task.findById", "")
    /\ UNCHANGED <<tasks, users, nextTask, nextUser, failure>>

\* await Task.findById(req.params.id), the completed guard, and the format
\* check of body.assignedUser
LoadTask(p) ==
    LET r == inflight[p]
    IN  /\ r.op = "PUT /tasks" /\ r.pc = "Task.findById"
        /\ IF r.id \notin DOMAIN tasks THEN Done(p, r, 404, "Not Found")
           ELSE IF alreadyCompleted(tasks[r.id])
                THEN Done(p, r, 400, "cannot modify a completed task")
           ELSE IF r.body.assignedUser # "" /\ ~isValid(r.body.assignedUser)
                THEN Done(p, r, 400, "invalid assignedUser id format")
           ELSE Goto(p, [r EXCEPT !.loaded = tasks[r.id]],
                     IF r.body.assignedUser # "" THEN "User.findById" ELSE "task.save",
                     "")
        /\ UNCHANGED <<tasks, users, nextTask, nextUser, failure>>

\* await User.findById(body.assignedUser) and the check of assignedUserName
LoadAssignee(p) ==
    LET r == inflight[p]
        u == r.body.assignedUser
    IN  /\ r.op = "PUT /tasks" /\ r.pc = "User.findById"
        /\ IF u \notin DOMAIN users THEN Done(p, r, 404, "assigned user does not exist")
           ELSE IF r.body.assignedUserName # "" /\ r.body.assignedUserName # users[u].name
                THEN Done(p, r, 400, "assignedUserName does not match user name")
           ELSE Goto(p, [r EXCEPT !.resolved =
                                     IF r.body.assignedUserName # ""
                                     THEN r.body.assignedUserName ELSE users[u].name],
                     "task.save", "")
        /\ UNCHANGED <<tasks, users, nextTask, nextUser, failure>>

\* the Task document of the handler after its field updates
updated(r) ==
    [name |-> r.body.name, deadline |-> r.body.deadline,
     completed |-> r.body.completed, assignedUser |-> r.body.assignedUser,
     assignedUserName |->
         IF r.body.assignedUser # "" THEN r.resolved
         ELSE IF r.body.assignedUserName # "" THEN r.body.assignedUserName
         ELSE "unassigned"]

\* the storage operation of tasks.put that follows operation pc
putStep(r, pc) ==
    LET task == updated(r)
        old  == r.loaded
    IN  IF pc = "task.save" /\ old.assignedUser # ""
           /\ old.assignedUser # task.assignedUser THEN "pull old"
        ELSE IF pc \in {"task.save", "pull old"} /\ task.assignedUser # ""
                /\ ~task.completed THEN "push"
        ELSE IF pc \in {"task.save", "pull old", "push"} /\ task.completed
                /\ old.completed = FALSE /\ task.assignedUser # "" THEN "pull completed"
        ELSE "respond"

\* await task.save(): the paths the handler changed are written
SaveTask(p) ==
    LET r    == inflight[p]
        task == updated(r)
        old  == r.loaded
    IN  /\ r.op = "PUT /tasks" /\ r.pc = "task.save"
        /\ tasks' = [tasks EXCEPT ![r.id] =
              [f \in DOMAIN task |-> IF task[f] # old[f] THEN task[f] ELSE @[f]]]
        /\ Goto(p, r, putStep(r, "task.save"), "Task updated")
        /\ UNCHANGED <<users, nextTask, nextUser, failure>>

\* await removeTaskFromUser(oldAssigned, task._id)
PullOld(p) ==
    LET r == inflight[p]
    IN  /\ r.op = "PUT /tasks" /\ r.pc = "pull old"
        /\ users' = removeTaskFromUser(users, r.loaded.assignedUser, r.id)
        /\ Goto(p, r, putStep(r, "pull old"), "Task updated")
        /\ UNCHANGED <<tasks, nextTask, nextUser, failure>>

\* await addTaskToUser(task.assignedUser, task._id)
Push(p) ==
    LET r == inflight[p]
    IN  /\ r.op = "PUT /tasks" /\ r.pc = "push"
        /\ users' = addTaskToUser(users, updated(r).assignedUser, r.id)
        /\ Goto(p, r, putStep(r, "push"), "Task updated")
        /\ UNCHANGED <<tasks, nextTask, nextUser, failure>>

\* await removeTaskFromUser(task.assignedUser, task._id)
PullCompleted(p) ==
    LET r == inflight[p]
    IN  /\ r.op = "PUT /tasks" /\ r.pc = "pull completed"
        /\ users' = removeTaskFromUser(users, updated(r).assignedUser, r.id)
        /\ Goto(p, r, "respond", "Task updated")
        /\ UNCHANGED <<tasks, nextTask, nextUser, failure>>

\* users.put up to its first storage call: name and email, id format
BeginPutUser(p) ==
    /\ inflight[p] = Idle
    /\ \E id \in IssuedUserIds \cup {BadId}, body \in PutUserBodies :
          LET r == Request("PUT /users", "User.findOne", id, body)
          IN  IF body.name = "" \/ body.email = ""
                   THEN Done(p, r, 400, "name and email are required")
              ELSE IF ~isValid(id) THEN Done(p, r, 400, "invalid user id format")
              ELSE Goto(p, r, "User.findOne", "")
    /\ UNCHANGED <<tasks, users, nextTask, nextUser, failure>>

\* await User.findOne({email, _id: {$ne: id}})
CheckEmail(p) ==
    LET r == inflight[p]
    IN  /\ r.op = "PUT /users" /\ r.pc = "User.findOne"
        /\ IF emailTaken(r.body.email, r.id) THEN Done(p, r, 400, "email already exists")
           ELSE Goto(p, r, "User.findById", "")
        /\ UNCHANGED <<tasks, users, nextTask, nextUser, failure>>

\* toRemove and toAdd of the request, from the document it loaded
removed(r) == toRemove(r.loaded.pendingTasks, r.body.pendingTasks)
added(r)   == toAdd(r.loaded.pendingTasks, r.body.pendingTasks)

\* what follows the unassignment of toRemove: the format loop over toAdd,
\* then Task.find; user.save when nothing is added
ToAdded(p, r) ==
    IF Len(added(r)) = 0 THEN Goto(p, r, "user.save", "")
    ELSE IF castFails(added(r))
         THEN Done(p, r, 400, "invalid task id format in pendingTasks")
    ELSE Goto(p, r, "Task.find", "")

\* await User.findById(req.params.id)
LoadUser(p) ==
    LET r == inflight[p]
    IN  /\ r.op = "PUT /users" /\ r.pc = "User.findById"
        /\ IF r.id \notin DOMAIN users THEN Done(p, r, 404, "Not Found")
           ELSE LET l == [r EXCEPT !.loaded = users[r.id]]
                IN  IF Len(removed(l)) > 0 THEN Goto(p, l, "unassign", "")
                    ELSE ToAdded(p, l)
        /\ UNCHANGED <<tasks, users, nextTask, nextUser, failure>>

\* await Task.updateMany({_id: {$in: toRemove}}, {assignedUser: '', ...})
Unassign(p) ==
    LET r == inflight[p]
    IN  /\ r.op = "PUT /users" /\ r.pc = "unassign"
        /\ tasks' = assignTasks(tasks, removed(r), "", "unassigned")
        /\ ToAdded(p, r)
        /\ UNCHANGED <<users, nextTask, nextUser, failure>>

\* await Task.find({_id: {$in: toAdd}}), and the checks on what it found
FindTasks(p) ==
    LET r == inflight[p]
    IN  /\ r.op = "PUT /users" /\ r.pc = "Task.find"
        /\ IF Cardinality(tasksFound(added(r))) # Len(added(r))
                THEN Done(p, r, 404, "some task ids do not exist")
           ELSE IF completedIds(added(r)) # {}
                THEN Done(p, r, 400, "cannot add completed tasks to pendingTasks")
           ELSE Goto(p, r, "User.updateMany", "")
        /\ UNCHANGED <<tasks, users, nextTask, nextUser, failure>>

\* await User.updateMany({_id: {$ne: id}, ...}, {$pull: {pendingTasks: {$in: toAdd}}})
PullOthers(p) ==
    LET r == inflight[p]
    IN  /\ r.op = "PUT /users" /\ r.pc = "User.updateMany"
        /\ users' = pullFromOthers(users, r.id, added(r))
        /\ Goto(p, r, "Task.updateMany", "")
        /\ UNCHANGED <<tasks, nextTask, nextUser, failure>>

\* await Task.updateMany({_id: {$in: toAdd}}, {assignedUser: id, assignedUserName: body.name})
Assign(p) ==
    LET r == inflight[p]
    IN  /\ r.op = "PUT /users" /\ r.pc = "Task.updateMany"
        /\ tasks' = assignTasks(tasks, added(r), r.id, r.body.name)
        /\ Goto(p, r, "user.save", "")
        /\ UNCHANGED <<users, nextTask, nextUser, failure>>

\* await user.save(); a write the email index refuses is thrown into the
\* handler's catch
SaveUser(p) ==
    LET r == inflight[p]
    IN  /\ r.op = "PUT /users" /\ r.pc = "user.save"
        /\ IF emailIndexRefuses(users, r.id, saved(r).email)
           THEN /\ Done(p, r, 500, "Server error")
                /\ UNCHANGED users
           ELSE /\ users' = [users EXCEPT ![r.id] = saved(r)]
                /\ Done(p, r, 200, "User updated")
        /\ UNCHANGED <<tasks, nextTask, nextUser, failure>>

PutRaceNext ==
    \/ FirstTaskPost
    \/ FirstUserPost
    \/ \E p \in Procs :
        \/ BeginTaskPut(p)
        \/ LoadTask(p)
        \/ LoadAssignee(p)
        \/ SaveTask(p)
        \/ PullOld(p)
        \/ Push(p)
        \/ PullCompleted(p)
        \/ BeginPutUser(p)
        \/ CheckEmail(p)
        \/ LoadUser(p)
        \/ Unassign(p)
        \/ FindTasks(p)
        \/ PullOthers(p)
        \/ Assign(p)
        \/ SaveUser(p)

PutRaceSpec == Init /\ [][PutRaceNext]_vars

\* the request of p has responded, and was this update of document id
Responded(p, op, id) ==
    /\ inflight[p].pc = "done"
    /\ inflight[p].op = op
    /\ inflight[p].id = id

\* C25: once two concurrent Task updates that assign the same incomplete
\* Task to two different Users have both responded 200, the Task's id is in
\* the pendingTasks of the User its assignedUser names and of no other.
TwoAssignmentsAgree ==
    \A t \in DOMAIN tasks :
        (/\ \A p \in Procs :
               /\ Responded(p, "PUT /tasks", t)
               /\ inflight[p].status = 200
               /\ inflight[p].body.assignedUser # ""
               /\ ~inflight[p].body.completed
         /\ inflight[1].body.assignedUser # inflight[2].body.assignedUser)
        => \A u \in DOMAIN users :
              t \in pending(u) <=> tasks[t].assignedUser = u

\* C26: once a Task update that marks T completed and a concurrent User
\* update that newly adds T to its User's pendingTasks have both responded,
\* T completed is in the pendingTasks of no User.
CompletedAfterBothNotPending ==
    \A t \in DOMAIN tasks : \A p \in Procs, q \in Procs :
        (/\ Responded(p, "PUT /tasks", t)
         /\ inflight[p].body.completed
         /\ inflight[q].pc = "done"
         /\ inflight[q].op = "PUT /users"
         /\ t \in Range(inflight[q].body.pendingTasks)
         /\ t \notin Range(inflight[q].loaded.pendingTasks))
        => (tasks[t].completed => \A u \in DOMAIN users : t \notin pending(u))
====
